---- MODULE Spec2Model ----
(***************************************************************************)
(* Batch black-background removal: the BackgroundRemover class and the     *)
(* command-line driver of batch_bg_removal.py, and the worker thread and   *)
(* window of bg_removal_gui.py.                                            *)
(*                                                                         *)
(* Two specifications share the module:                                    *)
(*   PixelSpec  the pixel pipeline inside remove_black_background          *)
(*              (convert to RGBA, classify, mask the alpha channel);       *)
(*   Spec       the batch over a directory tree: discovery by glob, the    *)
(*              mirrored output path, the per-file loop, the statistics,   *)
(*              the command-line driver and the GUI worker with its        *)
(*              start / stop controls.                                     *)
(***************************************************************************)
EXTENDS Integers, Sequences, FiniteSets, TLC

\* ------------------------------------------------------------------------
\* Bounds of the model
\* ------------------------------------------------------------------------

\* largest number of pixels (height * width) of a modelled image buffer
MaxPixels == 2

\* largest number of files under the input root
MaxFiles == 2

\* largest number of worker threads the window starts
MaxRuns == 2

\* ------------------------------------------------------------------------
\* Pixels and buffers
\* ------------------------------------------------------------------------

\* BackgroundRemover.__init__ defaults
DefaultThreshold == 30
DefaultTolerance == 10

\* alpha of a fully opaque pixel (what convert('RGBA') appends)
Opaque == 255

\* channel intensities drawn for the colour channels, alpha values, thresholds
\* and tolerances: values at, just above and away from the thresholds
ChanVals == {0, DefaultThreshold + 1}
AlphaVals == {0, 128, Opaque}
Thresholds == {0, DefaultThreshold, DefaultThreshold + 1, Opaque}
Tolerances == {0, DefaultTolerance}

RGBPixels == {<<r, g, b>> : r \in ChanVals, g \in ChanVals, b \in ChanVals}
RGBAPixels == {p \o <<a>> : p \in RGBPixels, a \in AlphaVals}

\* the remover object: threshold and tolerance fields
Removers == [threshold : Thresholds, tolerance : Tolerances]

\* shapes (height, width) of at most MaxPixels pixels, the empty ones included
Shapes == {s \in (0..MaxPixels) \X (0..MaxPixels) : s[1] * s[2] <= MaxPixels}

Positions(h, w) == (1..h) \X (1..w)

\* an image buffer: mode, height, width and a grid of pixels of one channel count
BuffersOf(mode, pixels) ==
    UNION {[mode : {mode}, h : {s[1]}, w : {s[2]},
            px : [Positions(s[1], s[2]) -> pixels]] : s \in Shapes}

Buffers == BuffersOf("RGB", RGBPixels) \cup BuffersOf("RGBA", RGBAPixels)

NoBuffer == [mode |-> "none", h |-> 0, w |-> 0, px |-> <<>>]

\* is_black_background with the tolerance widening the threshold
is_black_background_tol(self, pixel) ==
    IF Len(pixel) = 4 /\ pixel[4] = 0
    THEN TRUE
    ELSE /\ pixel[1] <= self.threshold + self.tolerance
         /\ pixel[2] <= self.threshold + self.tolerance
         /\ pixel[3] <= self.threshold + self.tolerance

\* is_black_background: an RGBA pixel of alpha 0 is background; otherwise the
\* pixel is background iff r, g and b are all <= threshold
is_black_background(self, pixel) ==
    IF Len(pixel) = 4 /\ pixel[4] = 0
    THEN TRUE
    ELSE /\ pixel[1] <= self.threshold
         /\ pixel[2] <= self.threshold
         /\ pixel[3] <= self.threshold

\* img.convert('RGBA') of an RGB image: every pixel gets alpha 255
convert_rgba(img) ==
    IF img.mode # "RGBA"
    THEN [img EXCEPT !.mode = "RGBA",
                     !.px = [pos \in DOMAIN img.px |-> img.px[pos] \o <<Opaque>>]]
    ELSE img

\* the pixel loop with the alpha of a background pixel inverted instead of cleared
mask_alpha_invert(self, data) ==
    [data EXCEPT !.px = [pos \in DOMAIN data.px |->
        IF is_black_background(self, data.px[pos])
        THEN [data.px[pos] EXCEPT ![4] = Opaque - @]
        ELSE data.px[pos]]]

\* the pixel loop that clears the colour of a background pixel as well
mask_alpha_clear_rgb(self, data) ==
    [data EXCEPT !.px = [pos \in DOMAIN data.px |->
        IF is_black_background(self, data.px[pos])
        THEN <<0, 0, 0, 0>>
        ELSE data.px[pos]]]

\* the pixel loop: alpha_channel is a copy of channel 3, set to 0 at every
\* position whose pixel is classified background, then stored back
mask_alpha(self, data) ==
    [data EXCEPT !.px = [pos \in DOMAIN data.px |->
        IF is_black_background(self, data.px[pos])
        THEN [data.px[pos] EXCEPT ![4] = 0]
        ELSE data.px[pos]]]

\* decode-to-result part of remove_black_background
transform(self, img) == mask_alpha(self, convert_rgba(img))

\* ------------------------------------------------------------------------
\* Strings (sequences of one-character strings) and paths (sequences of
\* segments)
\* ------------------------------------------------------------------------

LowerLetters ==
    <<"a", "b", "c", "d", "e", "f", "g", "h", "i", "j", "k", "l", "m",
      "n", "o", "p", "q", "r", "s", "t", "u", "v", "w", "x", "y", "z">>
UpperLetters ==
    <<"A", "B", "C", "D", "E", "F", "G", "H", "I", "J", "K", "L", "M",
      "N", "O", "P", "Q", "R", "S", "T", "U", "V", "W", "X", "Y", "Z">>

upper_char(c) ==
    IF \E k \in 1..Len(LowerLetters) : LowerLetters[k] = c
    THEN UpperLetters[CHOOSE k \in 1..Len(LowerLetters) : LowerLetters[k] = c]
    ELSE c

lower_char(c) ==
    IF \E k \in 1..Len(UpperLetters) : UpperLetters[k] = c
    THEN LowerLetters[CHOOSE k \in 1..Len(UpperLetters) : UpperLetters[k] = c]
    ELSE c

\* str.upper and str.lower
upper(s) == [k \in 1..Len(s) |-> upper_char(s[k])]
lower(s) == [k \in 1..Len(s) |-> lower_char(s[k])]

\* str.endswith
endswith(s, suffix) ==
    /\ Len(suffix) <= Len(s)
    /\ SubSeq(s, Len(s) - Len(suffix) + 1, Len(s)) = suffix

MaxOf(S) == CHOOSE m \in S : \A n \in S : n <= m

\* s.rsplit(sep, 1)[0]: the part before the last separator, s when it has none
rsplit_head(s, sep) ==
    LET at == {k \in 1..Len(s) : s[k] = sep}
    IN  IF at = {} THEN s ELSE SubSeq(s, 1, MaxOf(at) - 1)

JpgExt == <<".", "j", "p", "g">>
JpegExt == <<".", "j", "p", "e", "g">>
PngExt == <<".", "p", "n", "g">>
BmpExt == <<".", "b", "m", "p">>

\* str(path): the segments joined by the separator
RECURSIVE str_path(_)
str_path(p) ==
    IF Len(p) = 0 THEN <<>>
    ELSE IF Len(p) = 1 THEN p[1]
    ELSE p[1] \o <<"/">> \o str_path(Tail(p))

\* Path.relative_to(root) of a path under root
relative_to(p, root) == SubSeq(p, Len(root) + 1, Len(p))

\* Path.parent
parent(p) == SubSeq(p, 1, Len(p) - 1)

\* the directories mkdir(parents=True, exist_ok=True) leaves in existence
mkdir_parents(dirset, p) == dirset \cup {SubSeq(p, 1, k) : k \in 1..Len(p)}

\* the components of p at which mkdir(parents=True, exist_ok=True) can raise:
\* those that do not exist yet
mkdir_fail_points(dirset, p) == {k \in 1..Len(p) : SubSeq(p, 1, k) \notin dirset}

\* the directories mkdir(parents=True, exist_ok=True) leaves when it raises at
\* component k of p: the ancestors above that component have been made
mkdir_failed(dirset, p, k) == mkdir_parents(dirset, SubSeq(p, 1, k - 1))

\* the path remove_black_background saves to: a path ending in .jpg or .jpeg
\* (any letter case) has the text after its last dot replaced by png, any
\* other path is used as it is
save_path(output_path) ==
    IF \/ endswith(lower(output_path), JpgExt)
       \/ endswith(lower(output_path), JpegExt)
    THEN rsplit_head(output_path, ".") \o PngExt
    ELSE output_path

\* ------------------------------------------------------------------------
\* The directory tree and the arguments of a run
\* ------------------------------------------------------------------------

\* the root of the tree: the input directory given on the command line
InputRoot == << <<"i", "n">> >>

\* the directories select_input_dir can put into the input field: the root of
\* the tree and its subdirectory a
InputDirs == {InputRoot, InputRoot \o << <<"a">> >>}

\* output_dir: None, a directory outside the input root, the input root itself
None == <<>>
OutDir == << <<"o", "u", "t">> >>
OutputDirs == {None, OutDir, InputRoot}

\* the directories select_output_dir can put into the output field
SelectableOutputDirs == {OutDir}

Processed == <<"p", "r", "o", "c", "e", "s", "s", "e", "d">>

\* file names
XJpgLower == <<"x", ".", "j", "p", "g">>
XJpgUpper == <<"x", ".", "J", "P", "G">>
XJpgMixed == <<"x", ".", "J", "p", "g">>
XJpeg == <<"x", ".", "j", "p", "e", "g">>
XBmp == <<"x", ".", "b", "m", "p">>
XPng == <<"x", ".", "p", "n", "g">>
YTxt == <<"y", ".", "t", "x", "t">>

\* the files that may exist under the input root, as paths relative to it, in
\* the order the directory scan yields them
FileUniverse ==
    << <<XJpgLower>>, <<XJpgUpper>>, <<XJpgMixed>>, <<XJpeg>>, <<XBmp>>,
       <<XPng>>, <<YTxt>>, << <<"a">>, XJpgLower >>,
       << <<"a">>, <<"b">>, XJpgLower >> >>

UniverseSet == {FileUniverse[k] : k \in 1..Len(FileUniverse)}

\* the files of the trees the window is run on (on a platform whose names are
\* matched case-sensitively)
GuiFiles == {<<XJpgLower>>, << <<"a">>, XJpgLower >>}

\* the extension lists: the default, an upper-case pattern, formats other than JPEG
ExtensionLists == {<<JpgExt, JpegExt>>, <<upper(JpgExt)>>, <<BmpExt>>, <<PngExt>>}

\* two relative paths that differ only in letter case
SameIgnoringCase(f, g) ==
    /\ Len(f) = Len(g)
    /\ \A k \in 1..Len(f) : lower(f[k]) = lower(g[k])

\* a directory tree: at most MaxFiles files; where names are matched without
\* regard to case no two files differ only in case
Trees(cs) ==
    {fs \in SUBSET UniverseSet :
        /\ Cardinality(fs) <= MaxFiles
        /\ cs \/ \A f \in fs, g \in fs : SameIgnoringCase(f, g) => f = g}

\* the directories that exist before the run
InitialDirs(e) ==
    IF e.inputExists
    THEN {InputRoot} \cup
         UNION {{InputRoot \o SubSeq(f, 1, k) : k \in 0..(Len(f) - 1)} : f \in e.files}
    ELSE {}

\* ------------------------------------------------------------------------
\* Discovery
\* ------------------------------------------------------------------------

\* fnmatch of a name against the pattern '*' + ext, case-sensitive on POSIX
\* and case-insensitive on Windows
fnmatch_star(name, ext, cs) ==
    IF cs THEN endswith(name, ext) ELSE endswith(lower(name), lower(ext))

\* input_path.glob('*' + ext) (entries directly in the root) and
\* input_path.rglob('*' + ext) (entries at every depth): the full paths
glob(e, input_path, ext, recursive) ==
    LET hit(f) == /\ f \in e.files
                  /\ Len(InputRoot \o f) > Len(input_path)
                  /\ SubSeq(InputRoot \o f, 1, Len(input_path)) = input_path
                  /\ recursive \/ Len(InputRoot \o f) = Len(input_path) + 1
                  /\ fnmatch_star(f[Len(f)], ext, e.caseSensitive)
    IN  [k \in 1..Len(SelectSeq(FileUniverse, hit)) |->
            InputRoot \o SelectSeq(FileUniverse, hit)[k]]

\* the image_files list: for every extension in order, the matches of the
\* extension as given and then the matches of its upper-case form
RECURSIVE discover(_, _, _, _)
discover(e, input_path, exts, recursive) ==
    IF Len(exts) = 0 THEN <<>>
    ELSE glob(e, input_path, Head(exts), recursive)
         \o glob(e, input_path, upper(Head(exts)), recursive)
         \o discover(e, input_path, Tail(exts), recursive)

\* the output root: output_dir, or input_path / 'processed' when it is None
output_root(input_path, output_dir) ==
    IF output_dir = None THEN input_path \o <<Processed>> ELSE output_dir

\* the output file named by the file name alone
output_file_flat(out_root, input_path, image_file) ==
    out_root \o <<image_file[Len(image_file)]>>

\* output_file = output_path / image_file.relative_to(input_path)
output_file(out_root, input_path, image_file) ==
    out_root \o relative_to(image_file, input_path)

\* ------------------------------------------------------------------------
\* State
\* ------------------------------------------------------------------------

VARIABLES
    env,          \* the platform and the tree: files, inputExists, caseSensitive
    args,         \* input_dir, output_dir, recursive, file_extensions of the run
    surface,      \* "cli": batch_bg_removal.main, "gui": BackgroundRemovalGUI
    pc,           \* position of the command-line driver or of the worker thread
    exc,          \* the exception that left batch_remove_background, or "none"
    image_files,  \* the discovered list
    idx,          \* number of loop iterations completed
    stats,        \* the stats dict of the running loop
    log,          \* one record per completed file task: src, out, outcome
    dirs,         \* the directories that exist
    returned,     \* <<stats>> once batch_remove_background has returned
    exitCode,     \* exit status of the command-line driver, -1 while running
    start_btn,    \* start_btn.isEnabled()
    stop_btn,     \* stop_btn.isEnabled()
    queue,        \* signals emitted by the worker, not yet delivered to the window
    shown,        \* <<stats>> passed to the last processing_finished call
    shownBy,      \* who made that call: "none", "signal" or "stop"
    warned,       \* the invalid-input-directory message box has been shown
    runs,         \* number of worker threads started so far
    stopping,     \* stop_processing has called terminate() and is inside wait()
    input_dir_edit,   \* the text of the input directory field, None when empty
    output_dir_edit,  \* the text of the output directory field, None when empty
    orphans,      \* the worker threads still running that the window no longer refers to
    ppc,          \* position in the pixel pipeline
    remover,      \* the BackgroundRemover: threshold, tolerance
    img,          \* the decoded image
    cls,          \* is_black_background of every pixel of img
    data,         \* the RGBA array
    result_img,   \* the array after the pixel loop
    result_img2   \* the array after processing result_img again

envVars == <<env, args, surface>>
runVars == <<pc, exc, image_files, idx, stats, log, dirs, returned, exitCode>>
guiVars ==
    <<start_btn, stop_btn, queue, shown, shownBy, warned, runs, stopping,
      input_dir_edit, output_dir_edit, orphans>>
pixVars == <<ppc, remover, img, cls, data, result_img, result_img2>>
vars == <<envVars, runVars, guiVars, pixVars>>

ZeroStats == [total |-> 0, success |-> 0, failed |-> 0]

\* the per-file outcomes: saved; mkdir of the parent raised; Image.open,
\* convert or the pixel loop raised; save raised
Outcomes == {"ok", "mkdir_error", "open_error", "save_error"}

\* the counters after a task that counts a failure only when the task returned False
count_task_no_except(st, outcome) ==
    IF outcome = "ok" THEN [st EXCEPT !.success = @ + 1]
    ELSE IF outcome = "mkdir_error" THEN st
    ELSE [st EXCEPT !.failed = @ + 1]

\* the counters after one loop iteration: success when remove_black_background
\* returned True, failed when it returned False or the iteration raised
count_task(st, outcome) ==
    IF outcome = "ok" THEN [st EXCEPT !.success = @ + 1]
    ELSE [st EXCEPT !.failed = @ + 1]

\* the output file of a task of a run with the arguments a
task_output(a, image_file) ==
    output_file(output_root(a.input_dir, a.output_dir), a.input_dir, image_file)

\* the log record of a file task; at is the component of the parent directory
\* at which mkdir raised, 0 when it did not raise
task_record(a, image_file, outcome, at) ==
    [src |-> image_file,
     out |-> IF outcome \in {"ok", "save_error", "killed"}
             THEN save_path(str_path(task_output(a, image_file)))
             ELSE <<>>,
     outcome |-> outcome,
     at |-> at]

\* the parent directory of the output file of a task
task_parent(a, image_file) == parent(task_output(a, image_file))

\* ------------------------------------------------------------------------
\* Initial states
\* ------------------------------------------------------------------------

\* a platform and a tree: a missing input root holds no file
Envs ==
    {e \in [files : SUBSET UniverseSet, inputExists : BOOLEAN, caseSensitive : BOOLEAN] :
        /\ e.files \in Trees(e.caseSensitive)
        /\ ~e.inputExists => e.files = {}}

Args ==
    [input_dir : {InputRoot}, output_dir : OutputDirs, recursive : BOOLEAN,
     file_extensions : ExtensionLists]

\* the settings of the window as constructed: no directories yet, the
\* recursive check box checked, the extensions field holding ".jpg, .jpeg"
GuiArgs ==
    [input_dir : {None}, output_dir : {None}, recursive : {TRUE},
     file_extensions : {<<JpgExt, JpegExt>>}]

PixIdle ==
    /\ ppc = "idle"
    /\ remover = [threshold |-> DefaultThreshold, tolerance |-> DefaultTolerance]
    /\ img = NoBuffer
    /\ cls = <<>>
    /\ data = NoBuffer
    /\ result_img = NoBuffer
    /\ result_img2 = NoBuffer

RunIdle ==
    /\ exc = "none"
    /\ image_files = <<>>
    /\ idx = 0
    /\ stats = ZeroStats
    /\ log = <<>>
    /\ returned = <<>>
    /\ exitCode = -1
    /\ start_btn = TRUE
    /\ stop_btn = FALSE
    /\ queue = <<>>
    /\ shown = <<>>
    /\ shownBy = "none"
    /\ warned = FALSE
    /\ runs = 0
    /\ stopping = FALSE
    /\ input_dir_edit = None
    /\ output_dir_edit = None
    /\ orphans = <<>>

\* the command line with its arguments, or the window as constructed: both
\* directory fields empty and no worker thread yet
Init ==
    /\ env \in Envs
    /\ surface \in {"cli", "gui"}
    /\ args \in IF surface = "cli" THEN Args ELSE GuiArgs
    /\ surface = "gui" => env.files \subseteq GuiFiles /\ env.caseSensitive
    /\ pc = IF surface = "cli" THEN "main" ELSE "idle"
    /\ dirs = InitialDirs(env)
    /\ RunIdle
    /\ PixIdle

\* ------------------------------------------------------------------------
\* batch_remove_background, driven by main
\* ------------------------------------------------------------------------

\* main: parse the arguments, build the remover, call batch_remove_background
MainCall ==
    /\ surface = "cli"
    /\ pc = "main"
    /\ pc' = "check"
    /\ UNCHANGED <<envVars, exc, image_files, idx, stats, log, dirs, returned,
                   exitCode, guiVars, pixVars>>

\* the existence check that runs after the output directory has been made
CheckInputLate ==
    /\ pc = "check"
    /\ dirs' = mkdir_parents(dirs, output_root(args.input_dir, args.output_dir))
    /\ IF env.inputExists
       THEN pc' = "discover" /\ exc' = exc
       ELSE pc' = "raised" /\ exc' = "ValueError"
    /\ UNCHANGED <<envVars, image_files, idx, stats, log, returned,
                   exitCode, guiVars, pixVars>>

\* input_path = Path(input_dir); raise ValueError when it does not exist
CheckInput ==
    /\ pc = "check"
    /\ IF env.inputExists
       THEN pc' = "outdir" /\ exc' = exc
       ELSE pc' = "raised" /\ exc' = "ValueError"
    /\ UNCHANGED <<envVars, image_files, idx, stats, log, dirs, returned,
                   exitCode, guiVars, pixVars>>

\* output_path.mkdir(parents=True, exist_ok=True), before discovery; an
\* OSError of mkdir (raised at a missing component, after the ancestors above
\* it have been made) leaves the function
MakeOutputDir ==
    /\ pc = "outdir"
    /\ LET output_path == output_root(args.input_dir, args.output_dir)
       IN  \/ /\ dirs' = mkdir_parents(dirs, output_path)
               /\ pc' = "discover"
               /\ exc' = exc
           \/ \E at \in mkdir_fail_points(dirs, output_path) :
               /\ dirs' = mkdir_failed(dirs, output_path, at)
               /\ pc' = "raised"
               /\ exc' = "OSError"
    /\ UNCHANGED <<envVars, image_files, idx, stats, log, returned,
                   exitCode, guiVars, pixVars>>

\* the glob loops; an empty list returns the zero stats, otherwise the stats
\* start at total = len(image_files)
Discover ==
    /\ pc = "discover"
    /\ image_files' = discover(env, args.input_dir, args.file_extensions, args.recursive)
    /\ IF image_files' = <<>>
       THEN /\ returned' = <<ZeroStats>>
            /\ stats' = stats
            /\ pc' = "returned"
       ELSE /\ returned' = returned
            /\ stats' = [total |-> Len(image_files'), success |-> 0, failed |-> 0]
            /\ pc' = "loop"
    /\ UNCHANGED <<envVars, exc, idx, log, dirs, exitCode, guiVars, pixVars>>

\* the iteration without its try: an error of mkdir leaves the function
ProcessFileNoTry ==
    /\ pc = "loop"
    /\ idx < Len(image_files)
    /\ \E outcome \in Outcomes :
        LET image_file == image_files[idx + 1]
        IN  IF outcome = "mkdir_error"
            THEN \E at \in mkdir_fail_points(dirs, task_parent(args, image_file)) :
                    /\ dirs' = mkdir_failed(dirs, task_parent(args, image_file), at)
                    /\ pc' = "raised"
                    /\ exc' = "OSError"
                    /\ UNCHANGED <<stats, log, idx>>
            ELSE /\ dirs' = mkdir_parents(dirs, task_parent(args, image_file))
                 /\ stats' = count_task(stats, outcome)
                 /\ log' = Append(log, task_record(args, image_file, outcome, 0))
                 /\ idx' = idx + 1
                 /\ UNCHANGED <<pc, exc>>
    /\ UNCHANGED <<envVars, image_files, returned, exitCode, guiVars, pixVars>>

\* one iteration of the for loop: relative path, output file, mkdir of its
\* parent, remove_black_background, one counter incremented; every Exception
\* is caught inside the iteration
ProcessFile ==
    /\ pc = "loop"
    /\ idx < Len(image_files)
    /\ \E outcome \in Outcomes :
        LET image_file == image_files[idx + 1]
        IN  /\ stats' = count_task(stats, outcome)
            /\ IF outcome = "mkdir_error"
               THEN \E at \in mkdir_fail_points(dirs, task_parent(args, image_file)) :
                        /\ dirs' = mkdir_failed(dirs, task_parent(args, image_file), at)
                        /\ log' = Append(log, task_record(args, image_file, outcome, at))
               ELSE /\ dirs' = mkdir_parents(dirs, task_parent(args, image_file))
                    /\ log' = Append(log, task_record(args, image_file, outcome, 0))
    /\ idx' = idx + 1
    /\ UNCHANGED <<envVars, pc, exc, image_files, returned, exitCode, guiVars, pixVars>>

\* return stats, after the last discovered file
Return ==
    /\ pc = "loop"
    /\ idx = Len(image_files)
    /\ returned' = <<stats>>
    /\ pc' = "returned"
    /\ UNCHANGED <<envVars, exc, image_files, idx, stats, log, dirs,
                   exitCode, guiVars, pixVars>>

\* main: print the three counters and fall off the end (exit status 0)
MainPrint ==
    /\ pc = "returned"
    /\ exitCode' = 0
    /\ pc' = "exit"
    /\ UNCHANGED <<envVars, exc, image_files, idx, stats, log, dirs, returned,
                   guiVars, pixVars>>

\* main: except Exception: print the error, sys.exit(1)
MainExcept ==
    /\ pc = "raised"
    /\ exitCode' = 1
    /\ pc' = "exit"
    /\ UNCHANGED <<envVars, exc, image_files, idx, stats, log, dirs, returned,
                   guiVars, pixVars>>

\* ------------------------------------------------------------------------
\* The window and its worker thread
\* ------------------------------------------------------------------------

\* positions at which the worker's isRunning() is true
WorkerRunning == {"w_discover", "w_outdir", "w_loop", "w_begin", "w_task", "w_exit"}

Signal(sig, cur, total, st) == [sig |-> sig, cur |-> cur, total |-> total, stats |-> st]

\* a worker thread: its position, the arguments it was constructed with, the
\* locals of run and the record of its finished tasks (the record is kept
\* for the thread the window refers to only)
Thread(p, a, fs, i, st, lg) ==
    [pc |-> p, args |-> a, image_files |-> fs, idx |-> i, stats |-> st, log |-> lg]

\* the thread the window refers to (self.processing_thread)
Cur == Thread(pc, args, image_files, idx, stats, log)

\* one step of run: the thread after it, the directories after it, the
\* signals it emitted
Step(t, dirset, emitted) == [thread |-> t, dirs |-> dirset, emit |-> emitted]

\* run: the glob loops; with no file, emit finished with the zero stats and return
run_discover(t, dirset) ==
    LET fs == discover(env, t.args.input_dir, t.args.file_extensions, t.args.recursive)
    IN  IF fs = <<>>
        THEN {Step([t EXCEPT !.image_files = fs, !.pc = "w_exit"], dirset,
                   <<Signal("finished", 0, 0, ZeroStats)>>)}
        ELSE {Step([t EXCEPT !.image_files = fs, !.pc = "w_outdir"], dirset, <<>>)}

\* run: output_path.mkdir after discovery, then the stats; an OSError of
\* mkdir reaches the outer except, which emits finished with the zero stats
run_outdir(t, dirset) ==
    LET output_path == output_root(t.args.input_dir, t.args.output_dir)
    IN  {Step([t EXCEPT !.stats = [total |-> Len(t.image_files), success |-> 0, failed |-> 0],
                        !.pc = "w_loop"],
              mkdir_parents(dirset, output_path), <<>>)}
        \cup
        {Step([t EXCEPT !.pc = "w_exit"], mkdir_failed(dirset, output_path, at),
              <<Signal("finished", 0, 0, ZeroStats)>>) :
            at \in mkdir_fail_points(dirset, output_path)}

\* run, the start of an iteration: emit progress_updated(i + 1, total)
run_emit(t, dirset) ==
    {Step([t EXCEPT !.pc = "w_begin"], dirset,
          <<Signal("progress", t.idx + 1, Len(t.image_files), ZeroStats)>>)}

\* run, the iteration up to the call of remove_black_background: compute the
\* output file, mkdir its parent; an error of mkdir is caught by the
\* iteration's except and counted as failed
run_begin(t, dirset) ==
    LET image_file == t.image_files[t.idx + 1]
        output_parent == task_parent(t.args, image_file)
    IN  {Step([t EXCEPT !.pc = "w_task"], mkdir_parents(dirset, output_parent), <<>>)}
        \cup
        {Step([t EXCEPT !.stats = count_task(@, "mkdir_error"),
                        !.log = Append(@, task_record(t.args, image_file, "mkdir_error", at)),
                        !.idx = @ + 1,
                        !.pc = "w_loop"],
              mkdir_failed(dirset, output_parent, at), <<>>) :
            at \in mkdir_fail_points(dirset, output_parent)}

\* run, the rest of an iteration: remove_black_background returns True or
\* False and one counter is incremented
run_task(t, dirset) ==
    {Step([t EXCEPT !.stats = count_task(@, outcome),
                    !.log = Append(@, task_record(t.args, t.image_files[t.idx + 1], outcome, 0)),
                    !.idx = @ + 1,
                    !.pc = "w_loop"],
          dirset, <<>>) :
        outcome \in Outcomes \ {"mkdir_error"}}

\* run: after the loop, emit finished(stats)
run_finish(t, dirset) ==
    {Step([t EXCEPT !.pc = "w_exit"], dirset, <<Signal("finished", 0, 0, t.stats)>>)}

\* run returns
run_exit(t, dirset) == {Step([t EXCEPT !.pc = "w_done"], dirset, <<>>)}

\* the next step of a running thread, whatever its position
run_step(t, dirset) ==
    CASE t.pc = "w_discover" -> run_discover(t, dirset)
      [] t.pc = "w_outdir" -> run_outdir(t, dirset)
      [] t.pc = "w_loop" -> IF t.idx < Len(t.image_files) THEN run_emit(t, dirset)
                            ELSE run_finish(t, dirset)
      [] t.pc = "w_begin" -> run_begin(t, dirset)
      [] t.pc = "w_task" -> run_task(t, dirset)
      [] t.pc = "w_exit" -> run_exit(t, dirset)

\* the thread the window refers to takes the step st
CurStep(st) ==
    /\ pc' = st.thread.pc
    /\ image_files' = st.thread.image_files
    /\ idx' = st.thread.idx
    /\ stats' = st.thread.stats
    /\ log' = st.thread.log
    /\ dirs' = st.dirs
    /\ queue' = queue \o st.emit
    /\ UNCHANGED <<envVars, exc, returned, exitCode, start_btn, stop_btn, shown, shownBy,
                   warned, runs, stopping, input_dir_edit, output_dir_edit, orphans,
                   pixVars>>

\* select_input_dir: the directory chosen in the dialog goes into the input field
SelectInputDir ==
    /\ surface = "gui"
    /\ pc # "aborted"
    /\ ~stopping
    /\ \E dir_path \in InputDirs \ {input_dir_edit} : input_dir_edit' = dir_path
    /\ UNCHANGED <<envVars, runVars, start_btn, stop_btn, queue, shown, shownBy, warned,
                   runs, stopping, output_dir_edit, orphans, pixVars>>

\* select_output_dir: the directory chosen in the dialog goes into the output field
SelectOutputDir ==
    /\ surface = "gui"
    /\ pc # "aborted"
    /\ ~stopping
    /\ \E dir_path \in SelectableOutputDirs \ {output_dir_edit} : output_dir_edit' = dir_path
    /\ UNCHANGED <<envVars, runVars, start_btn, stop_btn, queue, shown, shownBy, warned,
                   runs, stopping, input_dir_edit, orphans, pixVars>>

\* start_processing with an input field that is empty or names a directory
\* that does not exist: the warning box, nothing else
StartInvalid ==
    /\ surface = "gui"
    /\ pc # "aborted"
    /\ start_btn
    /\ input_dir_edit \notin dirs
    /\ ~warned
    /\ ~stopping
    /\ warned' = TRUE
    /\ UNCHANGED <<envVars, runVars, start_btn, stop_btn, queue, shown, shownBy,
                   runs, stopping, input_dir_edit, output_dir_edit, orphans, pixVars>>

\* start_processing, lines 250-264: disable Start, enable Stop, clear the
\* result text, create a ProcessingThread from the fields and start it
StartThread ==
    /\ start_btn' = FALSE
    /\ stop_btn' = TRUE
    /\ shown' = <<>>
    /\ shownBy' = "none"
    /\ runs' = runs + 1
    /\ args' = [args EXCEPT !.input_dir = input_dir_edit, !.output_dir = output_dir_edit]
    /\ pc' = "w_discover"
    /\ image_files' = <<>>
    /\ idx' = 0
    /\ stats' = ZeroStats
    /\ log' = <<>>
    /\ UNCHANGED <<env, surface, exc, dirs, returned, exitCode, queue, warned, stopping,
                   input_dir_edit, output_dir_edit, pixVars>>

\* start_processing when no earlier worker is running
StartProcessing ==
    /\ surface = "gui"
    /\ start_btn
    /\ input_dir_edit \in dirs
    /\ runs < MaxRuns
    /\ ~stopping
    /\ pc \in {"idle", "w_done", "w_terminated"}
    /\ StartThread
    /\ orphans' = orphans

\* start_processing while the worker of an earlier click is still running
\* (Start was re-enabled by a finished signal): the window's only reference to
\* that thread is replaced. A thread inside run() is kept alive by its own
\* frame and goes on beside the new worker; a thread that has been started
\* but has not entered run() yet is destroyed while running and Qt aborts the
\* process
StartWhileRunning ==
    /\ surface = "gui"
    /\ start_btn
    /\ input_dir_edit \in dirs
    /\ runs < MaxRuns
    /\ ~stopping
    /\ pc \in WorkerRunning
    /\ \/ /\ StartThread
          /\ orphans' = Append(orphans, [Cur EXCEPT !.log = <<>>])
       \/ /\ pc = "w_discover"
          /\ pc' = "aborted"
          /\ start_btn' = FALSE
          /\ stop_btn' = TRUE
          /\ shown' = <<>>
          /\ shownBy' = "none"
          /\ UNCHANGED <<envVars, exc, image_files, idx, stats, log, dirs, returned,
                         exitCode, queue, warned, runs, stopping, input_dir_edit,
                         output_dir_edit, orphans, pixVars>>

WorkerDiscover ==
    /\ pc = "w_discover"
    /\ \E st \in run_discover(Cur, dirs) : CurStep(st)

WorkerMakeOutputDir ==
    /\ pc = "w_outdir"
    /\ \E st \in run_outdir(Cur, dirs) : CurStep(st)

WorkerEmitProgress ==
    /\ pc = "w_loop"
    /\ idx < Len(image_files)
    /\ \E st \in run_emit(Cur, dirs) : CurStep(st)

WorkerBeginTask ==
    /\ pc = "w_begin"
    /\ \E st \in run_begin(Cur, dirs) : CurStep(st)

WorkerEndTask ==
    /\ pc = "w_task"
    /\ \E st \in run_task(Cur, dirs) : CurStep(st)

WorkerFinish ==
    /\ pc = "w_loop"
    /\ idx = Len(image_files)
    /\ \E st \in run_finish(Cur, dirs) : CurStep(st)

\* run returns and the thread stops running
WorkerExit ==
    /\ pc = "w_exit"
    /\ \E st \in run_exit(Cur, dirs) : CurStep(st)

\* a step of a thread the window no longer refers to. When its run() returns
\* the last reference to the thread object goes while the thread has not
\* finished: the object is destroyed while running, and Qt either aborts the
\* process or the thread ends unnoticed
OrphanStep ==
    /\ pc # "aborted"
    /\ \E i \in 1..Len(orphans) :
        \E st \in run_step(orphans[i], dirs) :
            /\ dirs' = st.dirs
            /\ queue' = queue \o st.emit
            /\ IF st.thread.pc = "w_done"
               THEN \/ /\ orphans' = SubSeq(orphans, 1, i - 1)
                                     \o SubSeq(orphans, i + 1, Len(orphans))
                       /\ pc' = pc
                    \/ /\ orphans' = orphans
                       /\ pc' = "aborted"
               ELSE /\ orphans' = [orphans EXCEPT ![i] = [st.thread EXCEPT !.log = <<>>]]
                    /\ pc' = pc
    /\ UNCHANGED <<envVars, exc, image_files, idx, stats, log, returned, exitCode,
                   start_btn, stop_btn, shown, shownBy, warned, runs, stopping,
                   input_dir_edit, output_dir_edit, pixVars>>

\* the window's event loop delivers the oldest queued signal: update_progress
\* for progress_updated, processing_finished(stats) for finished (enable
\* Start, disable Stop, show the stats)
DeliverSignal ==
    /\ surface = "gui"
    /\ pc # "aborted"
    /\ ~stopping
    /\ queue # <<>>
    /\ queue' = Tail(queue)
    /\ IF Head(queue).sig = "finished"
       THEN /\ start_btn' = TRUE
            /\ stop_btn' = FALSE
            /\ shown' = <<Head(queue).stats>>
            /\ shownBy' = "signal"
       ELSE UNCHANGED <<start_btn, stop_btn, shown, shownBy>>
    /\ UNCHANGED <<envVars, runVars, warned, runs, stopping, input_dir_edit,
                   output_dir_edit, orphans, pixVars>>

\* stop_processing, up to wait(): the thread isRunning(), terminate() asks
\* for it to be killed and wait() blocks the window until it has ended
StopProcessing ==
    /\ surface = "gui"
    /\ stop_btn
    /\ ~stopping
    /\ pc \in WorkerRunning
    /\ stopping' = TRUE
    /\ UNCHANGED <<envVars, runVars, start_btn, stop_btn, queue, shown, shownBy,
                   warned, runs, input_dir_edit, output_dir_edit, orphans, pixVars>>

\* the kill asked for by terminate() takes effect, wherever the worker has
\* got to by then: a thread killed inside remove_black_background leaves its
\* task without a counter; a thread killed while it holds a lock the window
\* needs leaves the window blocked for good
WorkerKilled ==
    /\ stopping
    /\ pc \in WorkerRunning
    /\ pc' \in {"w_terminated", "w_hung"}
    /\ log' = IF pc = "w_task"
              THEN Append(log, task_record(args, image_files[idx + 1], "killed", 0))
              ELSE log
    /\ UNCHANGED <<envVars, exc, image_files, idx, stats, dirs, returned, exitCode,
                   guiVars, pixVars>>

\* stop_processing, after wait() has returned (the thread was killed or had
\* reached its end): processing_finished with the zero stats
StopReturn ==
    /\ stopping
    /\ pc \in {"w_terminated", "w_done"}
    /\ stopping' = FALSE
    /\ start_btn' = TRUE
    /\ stop_btn' = FALSE
    /\ shown' = <<ZeroStats>>
    /\ shownBy' = "stop"
    /\ UNCHANGED <<envVars, runVars, queue, warned, runs, input_dir_edit,
                   output_dir_edit, orphans, pixVars>>

\* ------------------------------------------------------------------------
\* The pixel pipeline of remove_black_background
\* ------------------------------------------------------------------------

\* is_black_background(pixel) for every pixel of the decoded image
ClassifyPixels ==
    /\ ppc = "open"
    /\ cls' = [pos \in DOMAIN img.px |-> is_black_background(remover, img.px[pos])]
    /\ ppc' = "classified"
    /\ UNCHANGED <<envVars, runVars, guiVars, remover, img, data, result_img, result_img2>>

\* if img.mode != 'RGBA': img = img.convert('RGBA'); data = np.array(img)
ConvertImage ==
    /\ ppc = "classified"
    /\ data' = convert_rgba(img)
    /\ ppc' = "converted"
    /\ UNCHANGED <<envVars, runVars, guiVars, remover, img, cls, result_img, result_img2>>

\* the pixel loop and Image.fromarray(data, 'RGBA')
MaskPixels ==
    /\ ppc = "converted"
    /\ result_img' = mask_alpha(remover, data)
    /\ ppc' = "masked"
    /\ UNCHANGED <<envVars, runVars, guiVars, remover, img, cls, data, result_img2>>

\* the result decoded and processed once more by the same remover
Reprocess ==
    /\ ppc = "masked"
    /\ result_img2' = transform(remover, result_img)
    /\ ppc' = "remasked"
    /\ UNCHANGED <<envVars, runVars, guiVars, remover, img, cls, data, result_img>>

\* ------------------------------------------------------------------------
\* Specifications
\* ------------------------------------------------------------------------

Next ==
    \/ MainCall
    \/ CheckInput
    \/ MakeOutputDir
    \/ Discover
    \/ ProcessFile
    \/ Return
    \/ MainPrint
    \/ MainExcept
    \/ SelectInputDir
    \/ SelectOutputDir
    \/ StartInvalid
    \/ StartProcessing
    \/ StartWhileRunning
    \/ WorkerDiscover
    \/ WorkerMakeOutputDir
    \/ WorkerEmitProgress
    \/ WorkerBeginTask
    \/ WorkerEndTask
    \/ WorkerFinish
    \/ WorkerExit
    \/ OrphanStep
    \/ DeliverSignal
    \/ StopProcessing
    \/ WorkerKilled
    \/ StopReturn

Spec == Init /\ [][Next]_vars

PixInit ==
    /\ env = [files |-> {}, inputExists |-> FALSE, caseSensitive |-> TRUE]
    /\ args = [input_dir |-> InputRoot, output_dir |-> None, recursive |-> TRUE,
               file_extensions |-> <<JpgExt, JpegExt>>]
    /\ surface = "none"
    /\ pc = "none"
    /\ dirs = {}
    /\ RunIdle
    /\ ppc = "open"
    /\ remover \in Removers
    /\ img \in Buffers
    /\ cls = <<>>
    /\ data = NoBuffer
    /\ result_img = NoBuffer
    /\ result_img2 = NoBuffer

PixNext ==
    \/ ClassifyPixels
    \/ ConvertImage
    \/ MaskPixels
    \/ Reprocess

PixelSpec == PixInit /\ [][PixNext]_vars

\* the tree of the end-to-end example: two matching files directly in the
\* input root, one matching file one directory deep, one file that does not
\* match
ExampleFiles == {<<XJpgLower>>, <<XJpeg>>, << <<"a">>, XJpgLower >>, <<YTxt>>}

\* the command line run on the example tree with the default extensions, on
\* either platform, with every output directory and both recursive flags
ExampleInit ==
    /\ env \in [files : {ExampleFiles}, inputExists : {TRUE}, caseSensitive : BOOLEAN]
    /\ args \in {a \in Args : a.file_extensions = <<JpgExt, JpegExt>>}
    /\ surface = "cli"
    /\ pc = "main"
    /\ dirs = InitialDirs(env)
    /\ RunIdle
    /\ PixIdle

BatchNext ==
    \/ MainCall
    \/ CheckInput
    \/ MakeOutputDir
    \/ Discover
    \/ ProcessFile
    \/ Return
    \/ MainPrint
    \/ MainExcept

ExampleSpec == ExampleInit /\ [][BatchNext]_vars

\* ------------------------------------------------------------------------
\* Properties
\* ------------------------------------------------------------------------

Range(q) == {q[k] : k \in 1..Len(q)}

Balanced(st) == st.total = st.success + st.failed

\* the colour channels of a pixel are all at or below the threshold
AllAtMost(pixel, t) == pixel[1] <= t /\ pixel[2] <= t /\ pixel[3] <= t

\* a four-channel pixel that is already fully transparent
Transparent(pixel) == Len(pixel) = 4 /\ pixel[4] = 0

\* C1: the stats batch_remove_background returns have total = success +
\* failed and total = the length of the discovered list, and the stats the
\* window is given (by the finished signal or by stop_processing after a
\* cancellation) have total = success + failed
C1_StatsBalanced ==
    /\ returned # <<>> =>
        /\ Balanced(returned[1])
        /\ returned[1].total = Len(image_files)
    /\ shown # <<>> => Balanced(shown[1])

\* C1 witness: a batch has returned after at least one success and one failure
C1_Witness ==
    /\ returned # <<>>
    /\ returned[1].success >= 1
    /\ returned[1].failed >= 1

\* C2 as stated: when the batch returns, remove_black_background has been
\* attempted on every discovered file
C2_Original ==
    returned # <<>> =>
        \A k \in 1..Len(image_files) :
            /\ k <= Len(log)
            /\ log[k].src = image_files[k]
            /\ log[k].outcome # "mkdir_error"

\* the loop of batch_remove_background visits the discovered files in order
\* whatever the earlier outcomes were, lets no error raised inside an
\* iteration leave the function, and returns only after the last file
C2_LoopInv ==
    surface = "cli" =>
        /\ Len(log) = idx
        /\ idx <= Len(image_files)
        /\ \A k \in 1..idx : log[k].src = image_files[k]
        /\ exc # "none" => image_files = <<>> /\ log = <<>>
        /\ returned # <<>> => idx = Len(image_files)

\* a step taken inside the loop either completes the task of the next file
\* and stays in the loop, or returns the stats after the last file
C2_LoopStep ==
    pc = "loop" =>
        \/ /\ idx < Len(image_files)
           /\ idx' = idx + 1
           /\ pc' = "loop"
           /\ Len(log') = idx'
           /\ log'[idx'].src = image_files[idx']
           /\ log'[idx'].outcome \in Outcomes
        \/ /\ idx = Len(image_files)
           /\ returned' = <<stats>>
           /\ pc' = "returned"

\* C2 (amended): every discovered file gets its loop iteration whatever the
\* outcomes of the files before it (remove_black_background is attempted on
\* it unless creating its output directory fails, which counts the file as
\* failed), no per-file error escapes the loop, and the batch returns its
\* stats after the last discovered file
C2_EveryTaskRuns == []C2_LoopInv /\ [][C2_LoopStep]_vars

\* C2 witness: the batch has returned, and a file was saved after an earlier
\* file had failed
C2_Witness ==
    /\ returned # <<>>
    /\ Len(log) >= 2
    /\ log[1].outcome # "ok"
    /\ log[2].outcome = "ok"

\* C3 as stated: a pixel is classified background exactly when its three
\* colour channels are all <= threshold
C3_Original ==
    ppc # "open" =>
        \A pos \in DOMAIN img.px :
            cls[pos] = AllAtMost(img.px[pos], remover.threshold)

\* C3 (amended): colour channels all <= threshold gives true; a colour
\* channel > threshold gives false unless the pixel has four channels and
\* alpha 0, which gives true; the tolerance has no effect
C3_Threshold ==
    ppc # "open" =>
        \A pos \in DOMAIN img.px :
            /\ AllAtMost(img.px[pos], remover.threshold) => cls[pos]
            /\ Transparent(img.px[pos]) => cls[pos]
            /\ (~AllAtMost(img.px[pos], remover.threshold) /\ ~Transparent(img.px[pos]))
                  => ~cls[pos]

\* C3 witness: a classified image holds a transparent pixel above the
\* threshold and an opaque pixel within the tolerance above the threshold
C3_Witness ==
    /\ ppc = "classified"
    /\ remover.tolerance > 0
    /\ \E pos \in DOMAIN img.px :
        /\ Transparent(img.px[pos])
        /\ ~AllAtMost(img.px[pos], remover.threshold)
    /\ \E pos \in DOMAIN img.px :
        /\ ~Transparent(img.px[pos])
        /\ ~AllAtMost(img.px[pos], remover.threshold)
        /\ AllAtMost(img.px[pos], remover.threshold + remover.tolerance)

\* C4: the result has the shape of the input and four channels, the colour
\* channels of the input, and alpha 0 where the pixel is background and the
\* input alpha (255 for a three-channel input) elsewhere; with no background
\* pixel it is the four-channel upgrade of the input
C4_AlphaOnly ==
    ppc \in {"masked", "remasked"} =>
        /\ result_img.mode = "RGBA"
        /\ result_img.h = img.h
        /\ result_img.w = img.w
        /\ DOMAIN result_img.px = DOMAIN img.px
        /\ \A pos \in DOMAIN img.px :
            /\ Len(result_img.px[pos]) = 4
            /\ SubSeq(result_img.px[pos], 1, 3) = SubSeq(img.px[pos], 1, 3)
            /\ result_img.px[pos][4] =
                  IF cls[pos] THEN 0
                  ELSE IF Len(img.px[pos]) = 4 THEN img.px[pos][4] ELSE Opaque
        /\ (\A pos \in DOMAIN img.px : ~cls[pos]) =>
              \A pos \in DOMAIN img.px :
                  result_img.px[pos] =
                      IF Len(img.px[pos]) = 4 THEN img.px[pos]
                      ELSE img.px[pos] \o <<Opaque>>

\* C4 witness: a masked three-channel image with a background pixel and a
\* pixel that is not background
C4_Witness ==
    /\ ppc = "masked"
    /\ img.mode = "RGB"
    /\ \E pos \in DOMAIN img.px : cls[pos]
    /\ \E pos \in DOMAIN img.px : ~cls[pos]

\* C5: processing the result again with the same threshold gives the result
C5_Idempotent ==
    ppc = "remasked" => result_img2 = result_img

\* C5 witness: the second pass has run over a result in which the first pass
\* made an opaque pixel transparent
C5_Witness ==
    /\ ppc = "remasked"
    /\ \E pos \in DOMAIN data.px :
        /\ data.px[pos][4] # 0
        /\ result_img.px[pos][4] = 0

\* the path a discovered file is expected at: the output root, the
\* directories of the file relative to the input root, and the given name
MirrorOf(src, name) ==
    str_path(output_root(args.input_dir, args.output_dir)
             \o SubSeq(src, Len(args.input_dir) + 1, Len(src) - 1)
             \o <<name>>)

\* C6: every saved file is at the output root followed by its directories
\* relative to the input root, under its own name or under its name with the
\* extension replaced by .png
C6_MirroredPath ==
    \A k \in 1..Len(log) :
        log[k].outcome = "ok" =>
            LET name == log[k].src[Len(log[k].src)]
            IN  \/ log[k].out = MirrorOf(log[k].src, name)
                \/ log[k].out = MirrorOf(log[k].src, rsplit_head(name, ".") \o PngExt)

\* C6 witness: in/a/b/x.jpg has been saved as out/a/b/x.png
C6_Witness ==
    \E k \in 1..Len(log) :
        /\ log[k].outcome = "ok"
        /\ log[k].src = InputRoot \o << <<"a">>, <<"b">>, XJpgLower >>
        /\ log[k].out = <<"o", "u", "t", "/", "a", "/", "b", "/", "x", ".", "p", "n", "g">>

\* C7: no file is saved under an extension other than .png
C7_OnlyPngWritten ==
    \A k \in 1..Len(log) :
        log[k].outcome = "ok" => endswith(lower(log[k].out), PngExt)

\* discovery has run
Discovered == pc \in {"loop", "returned", "w_outdir", "w_loop", "w_begin", "w_task"}

\* C8: a file in the scope of the traversal is discovered exactly when its
\* name ends with one of the extensions, letter case ignored
C8_CaseInsensitiveMatch ==
    Discovered =>
        \A f \in env.files :
            (/\ Len(InputRoot \o f) > Len(args.input_dir)
             /\ SubSeq(InputRoot \o f, 1, Len(args.input_dir)) = args.input_dir
             /\ args.recursive \/ Len(InputRoot \o f) = Len(args.input_dir) + 1) =>
                ((InputRoot \o f) \in Range(image_files)
                    <=> \E k \in 1..Len(args.file_extensions) :
                            endswith(lower(f[Len(f)]), lower(args.file_extensions[k])))

\* C9: a batch that found no file returns the zero stats and leaves the
\* directories as they were, with no file opened or saved
C9_NoFilesNoEffect ==
    (returned # <<>> /\ image_files = <<>>) =>
        /\ returned[1] = ZeroStats
        /\ dirs = InitialDirs(env)
        /\ log = <<>>

\* C10: with a missing input root the command-line run raises the
\* invalid-input error at once: no directory is created, nothing is
\* discovered, opened or saved, no stats are returned, and the exit status
\* is 1
C10_InvalidInputRoot ==
    (surface = "cli" /\ ~env.inputExists) =>
        /\ dirs = InitialDirs(env)
        /\ image_files = <<>>
        /\ log = <<>>
        /\ returned = <<>>
        /\ pc \in {"main", "check", "raised", "exit"}
        /\ pc \in {"raised", "exit"} => exc = "ValueError"
        /\ pc = "exit" => exitCode = 1

\* C10 witness: the driver has exited with status 1 on a missing input root
C10_Witness ==
    /\ surface = "cli"
    /\ ~env.inputExists
    /\ exc = "ValueError"
    /\ pc = "exit"
    /\ exitCode = 1

\* the number of file tasks of the run that ran to their end and failed
FailedTasks == Cardinality({k \in 1..Len(log) : log[k].outcome \in (Outcomes \ {"ok"})})

\* C11: when the run is stopped after k tasks have completed, the result
\* handed to the window reflects exactly those k tasks: total = k, with the
\* success and failed counts of the attempted tasks
C11_StopReportsCompleted ==
    shownBy = "stop" =>
        shown = <<[total |-> idx, success |-> stats.success, failed |-> stats.failed]>>

\* C12: a stop takes effect only at a task boundary: no file task is halted
\* between the start of its decode and the end of its write
C12_StopAtTaskBoundary ==
    \A k \in 1..Len(log) : log[k].outcome # "killed"

\* C13: the progress notification of the i-th task is issued after that task
\* has completed: during the first run, every progress signal that has been
\* emitted names a task that is already counted
C13_ProgressAfterTask ==
    (surface = "gui" /\ runs = 1) =>
        \A k \in 1..Len(queue) :
            queue[k].sig = "progress" => queue[k].cur <= idx

\* C14: input files are read-only to the batch: no path written by the batch
\* is the path of a discovered input file
C14_InputsReadOnly ==
    \A j \in 1..Len(log) :
        log[j].outcome = "ok" =>
            \A k \in 1..Len(image_files) : log[j].out # str_path(image_files[k])

\* C15: the final tally never drops a failure: the failed count of the stats
\* the command line prints, and of the stats the window is given at the end
\* of its first run (by the finished signal or by the stop control), is the
\* number of file tasks that failed during the run
C15_TallyKeepsFailures ==
    /\ (surface = "cli" /\ pc = "exit" /\ returned # <<>>) =>
            returned[1].failed = FailedTasks
    /\ (surface = "gui" /\ runs = 1 /\ shownBy # "none") =>
            shown[1].failed = FailedTasks

\* C16: without recursive only files directly in the input root are
\* discovered, with recursive the matching files of every depth are; on the
\* example tree (two matching files at the top, one nested, one that does not
\* match) a non-recursive run whose tasks all succeed returns
\* {total: 2, success: 2, failed: 0}
C16_NonRecursiveExample ==
    /\ (Discovered /\ ~args.recursive) =>
            \A k \in 1..Len(image_files) : Len(image_files[k]) = Len(InputRoot) + 1
    /\ (Discovered /\ args.recursive) =>
            \A f \in env.files :
                (\E k \in 1..Len(args.file_extensions) :
                        endswith(f[Len(f)], args.file_extensions[k]))
                    => (InputRoot \o f) \in Range(image_files)
    /\ (/\ returned # <<>>
        /\ env.files = ExampleFiles
        /\ ~args.recursive
        /\ \A k \in 1..Len(log) : log[k].outcome = "ok") =>
            returned[1] = [total |-> 2, success |-> 2, failed |-> 0]

\* C17: distinct discovered files are written to distinct paths
C17_OutputsInjective ==
    \A j \in 1..Len(log), k \in 1..Len(log) :
        (/\ log[j].outcome = "ok"
         /\ log[k].outcome = "ok"
         /\ log[j].src # log[k].src) => log[j].out # log[k].out

\* C18: the discovered list holds each file at most once
C18_NoDuplicates ==
    Discovered =>
        \A j \in 1..Len(image_files), k \in 1..Len(image_files) :
            image_files[j] = image_files[k] => j = k

\* C19: while a worker is processing files the Start control is disabled and
\* the result of the run has not been replaced, and no second worker is
\* started over a worker that is processing
C19_StartDisabledWhileRunning ==
    /\ pc # "aborted"
    /\ pc \in (WorkerRunning \ {"w_exit"}) =>
        /\ ~start_btn
        /\ shown = <<>>
        /\ \A i \in 1..Len(orphans) : orphans[i].pc = "w_exit"

\* the counters of batch_remove_background after the iterations recorded in lg
RECURSIVE batch_stats(_, _)
batch_stats(st, lg) ==
    IF lg = <<>> THEN st
    ELSE batch_stats(count_task(st, Head(lg).outcome), Tail(lg))

\* the directories in existence after the iterations recorded in lg
RECURSIVE batch_dirs(_, _)
batch_dirs(dirset, lg) ==
    IF lg = <<>> THEN dirset
    ELSE batch_dirs(IF Head(lg).outcome = "mkdir_error"
                    THEN mkdir_failed(dirset, task_parent(args, Head(lg).src), Head(lg).at)
                    ELSE mkdir_parents(dirset, task_parent(args, Head(lg).src)),
                    Tail(lg))

\* batch_remove_background as a function of the tree, the discovered list and
\* the per-file outcomes: the stats it returns, the directories it leaves and
\* the paths it has written
batch_remove_background(e, files, lg) ==
    [stats   |-> IF files = <<>> THEN ZeroStats
                 ELSE batch_stats([total |-> Len(files), success |-> 0, failed |-> 0], lg),
     dirs    |-> batch_dirs(mkdir_parents(InitialDirs(e), output_root(args.input_dir, args.output_dir)), lg),
     written |-> {save_path(str_path(task_output(args, lg[k].src))) :
                     k \in {n \in 1..Len(lg) : lg[n].outcome = "ok"}}]

\* the paths the run has written
Written == {log[k].out : k \in {n \in 1..Len(log) : log[n].outcome = "ok"}}

\* C20: on the same tree, arguments and per-file outcomes, an uninterrupted
\* first worker run that has emitted finished from its loop or from its
\* no-file return has the stats, the directories and the written paths of
\* batch_remove_background, as the command-line run itself has
C20_WorkerMatchesCore ==
    LET core == batch_remove_background(env, image_files, log)
    IN  /\ (surface = "cli" /\ returned # <<>>) =>
                /\ returned[1] = core.stats
                /\ dirs = core.dirs
                /\ Written = core.written
        /\ (/\ surface = "gui"
            /\ runs = 1
            /\ pc \in {"w_exit", "w_done"}
            /\ image_files = <<>> \/ stats.total = Len(image_files)) =>
                /\ stats = core.stats
                /\ dirs = core.dirs
                /\ Written = core.written

====
